---------------------------- MODULE Spec2Model ----------------------------
(***************************************************************************)
(* Harmonic Keyboard (koteitan/harmkey), src/main.js.                      *)
(*                                                                         *)
(* A 7x7 grid maps 49 cells to harmonics and subharmonics of 440 Hz.  The  *)
(* cells are played by mouse/touch drag (monophonic) or by 21 PC keys      *)
(* (polyphonic), through a voice registry keyed by frequency.              *)
(*                                                                         *)
(* JavaScript numbers are IEEE-754 doubles.  Frequencies are registry keys *)
(* and are compared for identity, so the model computes them as doubles:   *)
(* a positive double is [exp, man] with value                              *)
(*   2^exp * (1 + man[1]/2^13 + man[2]/2^26 + man[3]/2^39 + man[4]/2^52),  *)
(* i.e. the 52 fraction bits in four 13-bit limbs, most significant first. *)
(* A property key is the number's string form, which is distinct for       *)
(* distinct doubles, so the double itself stands for the key.              *)
(***************************************************************************)
EXTENDS Integers, Sequences, FiniteSets, Bags, TLC

(***************************************************************************)
(* IEEE-754 double arithmetic (round to nearest, ties to even) on positive *)
(* values, as performed by the JavaScript operators / and * in main.js.    *)
(***************************************************************************)
Radix == 2^13

RECURSIVE Log2(_)
Log2(n) ==
    IF n < 2 THEN 0 ELSE 1 + Log2(n \div 2)

\* Add one unit in the last place to the fraction limbs; the result's carry
\* is 1 when the fraction overflows (the significand reaches 2).
IncMan(m) ==
    LET s4 == m[4] + 1
        s3 == m[3] + (s4 \div Radix)
        s2 == m[2] + (s3 \div Radix)
        s1 == m[1] + (s2 \div Radix)
    IN  [carry |-> s1 \div Radix,
         man   |-> <<s1 % Radix, s2 % Radix, s3 % Radix, s4 % Radix>>]

\* The double nearest to (head + l/2^52) / dv * 2^e, where head \div dv = 1
\* and l is a 52-bit fraction given as four limbs: long division limb by
\* limb, then rounding on the remainder.
RoundQuot(head, l, dv, e) ==
    LET r0 == head - dv
        t1 == r0 * Radix + l[1]
        t2 == (t1 % dv) * Radix + l[2]
        t3 == (t2 % dv) * Radix + l[3]
        t4 == (t3 % dv) * Radix + l[4]
        q  == <<t1 \div dv, t2 \div dv, t3 \div dv, t4 \div dv>>
        r4 == t4 % dv
        up == (2 * r4 > dv) \/ (2 * r4 = dv /\ q[4] % 2 = 1)
        inc == IncMan(q)
    IN  IF ~up THEN [exp |-> e, man |-> q]
        ELSE IF inc.carry = 1 THEN [exp |-> e + 1, man |-> <<0, 0, 0, 0>>]
        ELSE [exp |-> e, man |-> inc.man]

\* n / d for positive integers n, d (JavaScript: n / d).
FDiv(n, d) ==
    IF n >= d
    THEN LET k == Log2(n \div d)
         IN  RoundQuot(n, <<0, 0, 0, 0>>, d * 2^k, k)
    ELSE LET k0 == Log2(d \div n)
             k  == IF n * 2^k0 >= d THEN k0 ELSE k0 + 1
         IN  RoundQuot(n * 2^k, <<0, 0, 0, 0>>, d, 0 - k)

\* An integer as a double (exact for the magnitudes that occur here).
FromInt(n) ==
    FDiv(n, 1)

\* n * x for a positive integer n and a double x (JavaScript: n * x).
FMulInt(n, x) ==
    LET p4  == n * x.man[4]
        p3  == n * x.man[3] + (p4 \div Radix)
        p2  == n * x.man[2] + (p3 \div Radix)
        p1  == n * x.man[1] + (p2 \div Radix)
        top == n + (p1 \div Radix)
        k   == Log2(top)
    IN  RoundQuot(top, <<p1 % Radix, p2 % Radix, p3 % Radix, p4 % Radix>>,
                  2^k, x.exp + k)

\* x < y on doubles.
FLess(x, y) ==
    \/ x.exp < y.exp
    \/ /\ x.exp = y.exp
       /\ \E i \in 1..4 :
            /\ x.man[i] < y.man[i]
            /\ \A j \in 1..(i - 1) : x.man[j] = y.man[j]


(***************************************************************************)
(* Program constants.                                                      *)
(***************************************************************************)
baseFrequency == 440

gridSize == 7

referenceCellLinearIndex == 21

zInitialCellIndex == 14

pcKeys ==
    << "z", "x", "c", "v", "m", ",", ".",
       "a", "s", "d", "f", "j", "k", "l",
       "q", "w", "e", "r", "u", "i", "o" >>

\* undefined, where the source holds a cell index (real indices are >= 0).
Undefined == 0 - 1

\* null / undefined, where the source holds a number (a harmonic value or a
\* frequency): shaped like a double and equal to none.
NullNumber == [exp |-> 0, man |-> <<>>]

\* null, where the source holds a { cellIndex, harmonic } object.
NullInfo == [cellIndex |-> Undefined, harmonic |-> NullNumber]

Max(a, b) == IF a >= b THEN a ELSE b

Min(a, b) == IF a <= b THEN a ELSE b

(***************************************************************************)
(* Frequency Mapper: the three copies of the index-to-pitch mapping.       *)
(***************************************************************************)
\* linearIndex counted from the top row down.
LinearIndexTopDown(col, row) ==
    row * gridSize + col

\* linearIndex of a canvas cell: 0 bottom-left, 48 top-right.
LinearIndex(col, row) ==
    (gridSize - 1 - row) * gridSize + col

\* frequencyValue computed by drawGrid for the cell it draws.
drawGridFrequency(linearIndex) ==
    IF linearIndex = referenceCellLinearIndex
    THEN FromInt(baseFrequency)
    ELSE IF linearIndex > referenceCellLinearIndex
    THEN LET harmonicMultiple == linearIndex - referenceCellLinearIndex + 1
         IN  FromInt(baseFrequency * harmonicMultiple)
    ELSE LET subharmonicDivisor == (referenceCellLinearIndex - linearIndex) + 1
         IN  FDiv(baseFrequency, subharmonicDivisor)

\* frequency computed by playNoteForCell for the cell the pointer entered.
playNoteFrequency(col, row) ==
    LET linearIndex == LinearIndex(col, row)
    IN  IF linearIndex = referenceCellLinearIndex
        THEN FromInt(baseFrequency)
        ELSE IF linearIndex > referenceCellLinearIndex
        THEN LET harmonicMultiple == linearIndex - referenceCellLinearIndex + 1
             IN  FromInt(baseFrequency * harmonicMultiple)
        ELSE LET subharmonicDivisor == (referenceCellLinearIndex - linearIndex) + 1
             IN  FDiv(baseFrequency, subharmonicDivisor)

\* getHarmonicForCell counting the harmonics from the reference cell without
\* the "+ 1".
getHarmonicForCellOffByOne(linearIndex) ==
    IF linearIndex = referenceCellLinearIndex
    THEN FromInt(1)
    ELSE IF linearIndex > referenceCellLinearIndex
    THEN FromInt(linearIndex - referenceCellLinearIndex)
    ELSE FDiv(1, referenceCellLinearIndex - linearIndex)

\* getHarmonicForCell with the reference cell at index 28, as the comments
\* in drawGrid still describe it.
getHarmonicForCellRef28(linearIndex) ==
    IF linearIndex = 28
    THEN FromInt(1)
    ELSE IF linearIndex > 28
    THEN FromInt(linearIndex - 28 + 1)
    ELSE FDiv(1, (28 - linearIndex) + 1)

\* The harmonic value (a number) of a cell, used by the keyboard path.
getHarmonicForCell(linearIndex) ==
    IF linearIndex = referenceCellLinearIndex
    THEN FromInt(1)
    ELSE IF linearIndex > referenceCellLinearIndex
    THEN LET multiple == linearIndex - referenceCellLinearIndex + 1
         IN  FromInt(multiple)
    ELSE LET divisor == (referenceCellLinearIndex - linearIndex) + 1
         IN  IF divisor = 0 THEN FromInt(1) ELSE FDiv(1, divisor)

\* frequency = baseFrequency * harmonicValue, in the keydown and keyup handlers.
keyFrequency(harmonicValue) ==
    FMulInt(baseFrequency, harmonicValue)

(***************************************************************************)
(* Keyboard Mapper.                                                        *)
(***************************************************************************)
\* defaultPcKeyInitialCellIndex with every key outside the table given the
\* index of the first key.
defaultPcKeyInitialCellIndexAnyKey(key) ==
    IF \E i \in 1..Len(pcKeys) : pcKeys[i] = key
    THEN zInitialCellIndex + ((CHOOSE i \in 1..Len(pcKeys) : pcKeys[i] = key) - 1)
    ELSE zInitialCellIndex

\* defaultPcKeyInitialCellIndex[key]: pcKeys.forEach assigns the i-th key
\* (from 0) the index zInitialCellIndex + i; Undefined outside the table.
defaultPcKeyInitialCellIndex(key) ==
    IF \E i \in 1..Len(pcKeys) : pcKeys[i] = key
    THEN zInitialCellIndex + ((CHOOSE i \in 1..Len(pcKeys) : pcKeys[i] = key) - 1)
    ELSE Undefined

\* getHarmonicInfoForPcKey without the clamp to 0..48.
getHarmonicInfoForPcKeyNoClamp(physicalKey, shift) ==
    IF defaultPcKeyInitialCellIndex(physicalKey) = Undefined
    THEN NullInfo
    ELSE LET shiftedCellIndex == defaultPcKeyInitialCellIndex(physicalKey) + (shift * 7)
         IN  [cellIndex |-> shiftedCellIndex,
              harmonic  |-> getHarmonicForCell(shiftedCellIndex)]

getHarmonicInfoForPcKey(physicalKey, shift) ==
    IF defaultPcKeyInitialCellIndex(physicalKey) = Undefined
    THEN NullInfo
    ELSE LET baseCellIndex == defaultPcKeyInitialCellIndex(physicalKey)
             shiftedCellIndex == Max(0, Min(48, baseCellIndex + (shift * 7)))
         IN  [cellIndex |-> shiftedCellIndex,
              harmonic  |-> getHarmonicForCell(shiftedCellIndex)]

(***************************************************************************)
(* Bounds and input sets of the model.                                     *)
(***************************************************************************)
\* Registry entries and orphaned voices at the same time.
MaxVoices == 2

\* audioContext.sampleRate is the output device's rate.  At 13200 the
\* Nyquist frequency 6600 is the frequency of cell 35, and cells above it
\* are out of range; at 44100 every cell is in range.
SampleRates == {13200, 44100}

\* The page's script environment: piano.js loaded ("ready"), a Piano object
\* without play/stop functions ("empty"), no Piano binding ("undeclared").
PianoEnvs == {"ready", "empty", "undeclared"}

SourceKinds == {"sine", "piano"}

\* Cells (col, row) the pointer visits: linear indices 20, 21, 35 and 48.
PointerCells == {<<6, 4>>, <<0, 3>>, <<0, 1>>, <<6, 0>>}

\* The pointer position maps to no cell (outside the canvas).
NoCell == <<Undefined, Undefined>>

\* event.key values: two mapped keys, a mapped key with Shift/CapsLock and
\* an unmapped key; with the shift-control keys.
NoteKeys == {"z", "a", "A", "b"}

EventKeys == NoteKeys \cup {"ArrowUp", "ArrowDown"}

\* String.prototype.toLowerCase on the modelled event.key values.
toLowerCase(k) ==
    CASE k = "A" -> "a"
      [] k = "ArrowUp" -> "arrowup"
      [] k = "ArrowDown" -> "arrowdown"
      [] OTHER -> k

\* The doubles the handlers compute, evaluated once for the modelled inputs.
NyquistOf ==
    [r \in SampleRates |-> FDiv(r, 2)]

CellFrequencyOf ==
    [c \in PointerCells |-> playNoteFrequency(c[1], c[2])]

InitialCellIndexOf ==
    [k \in {toLowerCase(e) : e \in EventKeys} |-> defaultPcKeyInitialCellIndex(k)]

KeyInfoOf ==
    [k \in {toLowerCase(e) : e \in EventKeys} |->
        [s \in (0 - 3)..3 |-> getHarmonicInfoForPcKey(k, s)]]

KeyFrequencyOf ==
    [k \in {toLowerCase(e) : e \in EventKeys} |->
        [s \in (0 - 3)..3 |->
            IF KeyInfoOf[k][s] = NullInfo THEN NullNumber
            ELSE keyFrequency(KeyInfoOf[k][s].harmonic)]]

(***************************************************************************)
(* State.                                                                  *)
(***************************************************************************)
VARIABLES
    sampleRate,                \* audioContext.sampleRate
    pianoEnv,                  \* what the global name Piano is bound to
    soundSource,               \* soundSourceSelect.value
    activeOscillators,         \* frequency -> { type, voice }
    orphans,                   \* voices sounding outside the registry
    currentlyPlayingCell,      \* { x, y, frequency }
    isMouseDown,
    pcKeyShiftOffset,
    pressedKeys,
    activePcKeyLinearIndices,
    probe                      \* last evaluation of the pure mappers

vars ==
    <<sampleRate, pianoEnv, soundSource, activeOscillators, orphans,
      currentlyPlayingCell, isMouseDown, pcKeyShiftOffset, pressedKeys,
      activePcKeyLinearIndices, probe>>

\* The empty object {}.
EmptyRegistry == [f \in {} |-> {}]

NoPlayingCell == [x |-> Undefined, y |-> Undefined, frequency |-> NullNumber]

(***************************************************************************)
(* Tone Backend and Voice Registry.                                        *)
(*                                                                         *)
(* A registry entry { oscillator, gainNode, type } or { pianoSound, type } *)
(* holds the backend object of its voice, so the entry stands for the      *)
(* voice: [type, sounding], sounding until the backend is told to stop the *)
(* voice.  A voice that is still sounding when its entry is deleted is no  *)
(* longer reachable from the registry: orphans counts these voices by      *)
(* [frequency, type].  An oscillator ends only after stop() is called on   *)
(* it, and stopTone detaches onended before it calls stop().               *)
(*                                                                         *)
(* piano.js is not part of the sources: the Piano object is modelled from  *)
(* its interface (play returns a sound or nothing, stop(frequency) stops   *)
(* what plays at that frequency).                                          *)
(***************************************************************************)
\* The registry without its entry at frequency / with entry at frequency.
Without(reg, frequency) ==
    [f \in (DOMAIN reg) \ {frequency} |-> reg[f]]

With(reg, frequency, entry) ==
    [f \in (DOMAIN reg) \cup {frequency} |->
        IF f = frequency THEN entry ELSE reg[f]]

\* delete activeOscillators[frequency] while the entry's voice may still be
\* sounding: lost tells whether the backend was not told to stop it.
Delete(A, frequency, lost) ==
    [act   |-> Without(A.act, frequency),
     orph  |-> IF lost /\ A.act[frequency].sounding
               THEN A.orph (+) SetToBag({[frequency |-> frequency,
                                          type |-> A.act[frequency].type]})
               ELSE A.orph,
     threw |-> FALSE]

\* Piano.stop(frequency): what it does to the voices outside the registry
\* and to the registry's voices.
PianoStopOrphans(orph, frequency) ==
    [v \in {w \in DOMAIN orph : ~(w.type = "piano" /\ w.frequency = frequency)}
        |-> orph[v]]

PianoStopEntries(act, frequency) ==
    [f \in DOMAIN act |->
        IF f = frequency /\ act[f].type = "piano"
        THEN [act[f] EXCEPT !.sounding = FALSE]
        ELSE act[f]]

PianoStop(A, frequency) ==
    [A EXCEPT !.act = PianoStopEntries(A.act, frequency),
              !.orph = PianoStopOrphans(A.orph, frequency)]

\* The functions below take and return the audio state [act, orph, threw]:
\* the registry, the orphaned voices, and whether an exception left the
\* function (it then ends the calling event handler).
\*
\* Every caller of stopTone passes a type, so the "!type" alternatives of
\* the two branch conditions never decide; an Error thrown while ramping is
\* caught inside.
stopTone(A, frequency, type) ==
    IF frequency \notin DOMAIN A.act
    THEN A
    ELSE LET soundData == A.act[frequency]
         IN  IF type = "sine"
             THEN \* const { oscillator, gainNode } = soundData;
                  \* if (oscillator) { oscillator.onended = null; ... stop }
                  Delete(A, frequency, soundData.type # "sine")
             ELSE IF type = "piano"
             THEN \* if (Piano && Piano.stop) Piano.stop(frequency)
                  IF pianoEnv = "undeclared"
                  THEN [A EXCEPT !.threw = TRUE]
                  ELSE IF pianoEnv = "ready"
                  THEN Delete(PianoStop(A, frequency), frequency, TRUE)
                  ELSE Delete(A, frequency, TRUE)
             ELSE Delete(A, frequency, TRUE)

\* The sine branch of playTone: createOscillator ... start, onended set.
playSine(A, frequency) ==
    [A EXCEPT !.act = With(A.act, frequency,
                           [type |-> "sine", sounding |-> TRUE])]

\* The part of playTone after the re-trigger check: start a voice of the
\* given type and store it.  playOk: whether Piano.play returns a sound.
startTone(A, frequency, type, playOk) ==
    IF type = "sine"
    THEN playSine(A, frequency)
    ELSE IF type = "piano"
    THEN \* if (Piano && Piano.play)
         IF pianoEnv = "undeclared"
         THEN [A EXCEPT !.threw = TRUE]
         ELSE IF pianoEnv = "ready"
         THEN IF playOk
              THEN [A EXCEPT !.act = With(A.act, frequency,
                                 [type |-> "piano", sounding |-> TRUE])]
              ELSE A
         ELSE \* playTone(frequency, 'sine'): no entry is left at frequency
              playSine(A, frequency)
    ELSE A

\* playTone storing the new voice over the existing entry without stopping
\* the entry's voice.
playToneNoStop(A, frequency, type, playOk) ==
    startTone(IF frequency \in DOMAIN A.act THEN Delete(A, frequency, TRUE) ELSE A,
              frequency, type, playOk)

\* playTone stopping the voice of every entry, as a monophonic trigger does.
playToneMonophonic(A, frequency, type, playOk) ==
    startTone([A EXCEPT !.act = EmptyRegistry], frequency, type, playOk)

playTone(A, frequency, type, playOk) ==
    LET A1 == IF frequency \in DOMAIN A.act
              THEN stopTone(A, frequency, A.act[frequency].type)
              ELSE A
    IN  IF A1.threw
        THEN A1
        ELSE startTone(A1, frequency, type, playOk)

\* The onended handler removing whatever entry is at its frequency.
onendedNoIdentity(A, frequency, voice) ==
    IF frequency \in DOMAIN A.act
    THEN stopTone(A, frequency, "sine")
    ELSE A

\* oscillatorNode.onended of the sine voice started at frequency.  voice
\* tells which oscillator ended: "registered", the one the entry at
\* frequency holds, or "orphan", one that no entry holds any more; the test
\* activeOscillators[frequency].oscillator === oscillatorNode holds for the
\* former alone.
onended(A, frequency, voice) ==
    IF /\ frequency \in DOMAIN A.act
       /\ A.act[frequency].type = "sine"
       /\ voice = "registered"
    THEN stopTone(A, frequency, "sine")
    ELSE A

\* The audio state the event handlers start from.
Audio ==
    [act |-> activeOscillators, orph |-> orphans, threw |-> FALSE]

\* The number of registry entries and orphaned voices.
Allocated(A) ==
    Cardinality(DOMAIN A.act) + BagCardinality(A.orph)

\* audioContext.sampleRate / 2
Nyquist ==
    NyquistOf[sampleRate]

(***************************************************************************)
(* Input Dispatcher: pointer and touch.                                    *)
(***************************************************************************)
\* playNoteForCell without the early return for the cell already playing.
playNoteForCellAlways(col, row, playOk) ==
    LET A1 == IF currentlyPlayingCell.frequency # NullNumber
              THEN stopTone(Audio, currentlyPlayingCell.frequency, soundSource)
              ELSE Audio
        frequency == CellFrequencyOf[<<col, row>>]
        A2 == playTone(A1, frequency, soundSource, playOk)
    IN  IF A1.threw
        THEN [A |-> A1, cell |-> currentlyPlayingCell]
        ELSE IF FLess(Nyquist, frequency)
        THEN [A |-> A1, cell |-> currentlyPlayingCell]
        ELSE IF A2.threw
        THEN [A |-> A2, cell |-> currentlyPlayingCell]
        ELSE [A |-> A2,
              cell |-> [x |-> col, y |-> row, frequency |-> frequency]]

\* playNoteForCell without the release of the previously playing cell.
playNoteForCellNoStop(col, row, playOk) ==
    IF col = currentlyPlayingCell.x /\ row = currentlyPlayingCell.y
    THEN [A |-> Audio, cell |-> currentlyPlayingCell]
    ELSE LET frequency == CellFrequencyOf[<<col, row>>]
             A2 == playTone(Audio, frequency, soundSource, playOk)
         IN  IF FLess(Nyquist, frequency)
             THEN [A |-> Audio, cell |-> currentlyPlayingCell]
             ELSE IF A2.threw
             THEN [A |-> A2, cell |-> currentlyPlayingCell]
             ELSE [A |-> A2,
                   cell |-> [x |-> col, y |-> row, frequency |-> frequency]]

\* The result [A, cell] of playNoteForCell(col, row): the audio state and
\* currentlyPlayingCell.  A return or an exception before the assignment
\* leaves currentlyPlayingCell as it was.  Of the range check
\* (frequency <= 0 || frequency > sampleRate / 2) only the second part can
\* hold: every cell's frequency is positive.
playNoteForCell(col, row, playOk) ==
    IF col = currentlyPlayingCell.x /\ row = currentlyPlayingCell.y
    THEN [A |-> Audio, cell |-> currentlyPlayingCell]
    ELSE LET A1 == IF currentlyPlayingCell.frequency # NullNumber
                   THEN stopTone(Audio, currentlyPlayingCell.frequency, soundSource)
                   ELSE Audio
             frequency == CellFrequencyOf[<<col, row>>]
             A2 == playTone(A1, frequency, soundSource, playOk)
         IN  IF A1.threw
             THEN [A |-> A1, cell |-> currentlyPlayingCell]
             ELSE IF FLess(Nyquist, frequency)
             THEN [A |-> A1, cell |-> currentlyPlayingCell]
             ELSE IF A2.threw
             THEN [A |-> A2, cell |-> currentlyPlayingCell]
             ELSE [A |-> A2,
                   cell |-> [x |-> col, y |-> row, frequency |-> frequency]]

\* The pointer-stop block resetting currentlyPlayingCell without the call
\* of stopTone.
stopPlayingCellNoStop ==
    IF currentlyPlayingCell.frequency # NullNumber
    THEN [A |-> Audio, cell |-> NoPlayingCell]
    ELSE [A |-> Audio, cell |-> currentlyPlayingCell]

\* if (currentlyPlayingCell.frequency !== null) { stopTone(...);
\* currentlyPlayingCell = { x: -1, y: -1, frequency: null }; }
stopPlayingCell ==
    IF currentlyPlayingCell.frequency # NullNumber
    THEN LET A1 == stopTone(Audio, currentlyPlayingCell.frequency, soundSource)
         IN  [A |-> A1,
              cell |-> IF A1.threw THEN currentlyPlayingCell ELSE NoPlayingCell]
    ELSE [A |-> Audio, cell |-> currentlyPlayingCell]

\* The handlers' effect on the audio state and currentlyPlayingCell.
Commit(R) ==
    /\ Allocated(R.A) <= MaxVoices
    /\ activeOscillators' = R.A.act
    /\ orphans' = R.A.orph
    /\ currentlyPlayingCell' = R.cell

KeyboardUnchanged ==
    UNCHANGED <<pcKeyShiftOffset, pressedKeys, activePcKeyLinearIndices>>

EnvUnchanged ==
    UNCHANGED <<sampleRate, pianoEnv, soundSource, probe>>

PointerDown(cell, playOk) ==
    /\ isMouseDown' = TRUE
    /\ IF cell # NoCell
       THEN Commit(playNoteForCell(cell[1], cell[2], playOk))
       ELSE UNCHANGED <<activeOscillators, orphans, currentlyPlayingCell>>
    /\ KeyboardUnchanged
    /\ EnvUnchanged

PointerMove(cell, playOk) ==
    /\ IF ~isMouseDown
       THEN UNCHANGED <<activeOscillators, orphans, currentlyPlayingCell>>
       ELSE IF cell # NoCell
       THEN Commit(playNoteForCell(cell[1], cell[2], playOk))
       ELSE Commit(stopPlayingCell)
    /\ UNCHANGED isMouseDown
    /\ KeyboardUnchanged
    /\ EnvUnchanged

\* The mouseup/touchend handler without "isMouseDown = false".
PointerUpKeepFlag ==
    /\ UNCHANGED isMouseDown
    /\ Commit(stopPlayingCell)
    /\ KeyboardUnchanged
    /\ EnvUnchanged

PointerUp ==
    /\ isMouseDown' = FALSE
    /\ Commit(stopPlayingCell)
    /\ KeyboardUnchanged
    /\ EnvUnchanged

MouseDown ==
    \E cell \in PointerCells \cup {NoCell}, playOk \in BOOLEAN :
        PointerDown(cell, playOk)

MouseMove ==
    \E cell \in PointerCells \cup {NoCell}, playOk \in BOOLEAN :
        PointerMove(cell, playOk)

MouseUp ==
    PointerUp

MouseLeave ==
    IF isMouseDown
    THEN PointerUp
    ELSE UNCHANGED vars

TouchStart ==
    \E cell \in PointerCells \cup {NoCell}, playOk \in BOOLEAN :
        PointerDown(cell, playOk)

TouchMove ==
    \E cell \in PointerCells \cup {NoCell}, playOk \in BOOLEAN :
        PointerMove(cell, playOk)

TouchEnd ==
    PointerUp

(***************************************************************************)
(* Input Dispatcher: keyboard.                                             *)
(***************************************************************************)
\* pcKeyShiftOffset++ / pcKeyShiftOffset-- without the clamp that follows.
shiftUpNoClamp(offset) ==
    offset + 1

shiftDownNoClamp(offset) ==
    offset - 1

\* pcKeyShiftOffset++; if (pcKeyShiftOffset > 3) pcKeyShiftOffset = 3;
shiftUp(offset) ==
    IF offset + 1 > 3 THEN 3 ELSE offset + 1

\* pcKeyShiftOffset--; if (pcKeyShiftOffset < -3) pcKeyShiftOffset = -3;
shiftDown(offset) ==
    IF offset - 1 < 0 - 3 THEN 0 - 3 ELSE offset - 1

\* The shift-control branch of the keydown handler, also dropping the
\* highlights of the held keys.
ShiftKeyDownClearing(eventKey) ==
    /\ pcKeyShiftOffset' = IF eventKey = "ArrowUp"
                           THEN shiftUp(pcKeyShiftOffset)
                           ELSE shiftDown(pcKeyShiftOffset)
    /\ activePcKeyLinearIndices' = {}
    /\ UNCHANGED <<activeOscillators, orphans, pressedKeys>>

\* The shift-control branch of the keydown handler (ArrowUp, ArrowDown): the
\* shift offset moves by one within its range and the handler returns.
ShiftKeyDown(eventKey) ==
    /\ pcKeyShiftOffset' = IF eventKey = "ArrowUp"
                           THEN shiftUp(pcKeyShiftOffset)
                           ELSE shiftDown(pcKeyShiftOffset)
    /\ UNCHANGED <<activeOscillators, orphans, pressedKeys,
                   activePcKeyLinearIndices>>

\* The repeat test of the keydown handler with the pressed-key set ignored.
pressedKeysHasNever(key) ==
    FALSE

\* pressedKeys.has(key): the key is held, its key-down already handled.
pressedKeysHas(key) ==
    key \in pressedKeys

KeyDown(eventKey, playOk) ==
    LET key == toLowerCase(eventKey)
        keyHarmonicInfo == KeyInfoOf[key][pcKeyShiftOffset]
        frequency == KeyFrequencyOf[key][pcKeyShiftOffset]
        A == playTone(Audio, frequency, soundSource, playOk)
    IN  /\ IF eventKey = "ArrowUp"
           THEN ShiftKeyDown(eventKey)
           ELSE IF eventKey = "ArrowDown"
           THEN ShiftKeyDown(eventKey)
           ELSE IF /\ InitialCellIndexOf[key] # Undefined
                   /\ ~pressedKeysHas(key)
                   /\ keyHarmonicInfo # NullInfo
                   /\ FLess(frequency, Nyquist)
           THEN /\ Allocated(A) <= MaxVoices
                /\ activeOscillators' = A.act
                /\ orphans' = A.orph
                /\ pressedKeys' = IF A.threw THEN pressedKeys
                                  ELSE pressedKeys \cup {key}
                /\ activePcKeyLinearIndices' =
                      IF A.threw THEN activePcKeyLinearIndices
                      ELSE activePcKeyLinearIndices \cup {keyHarmonicInfo.cellIndex}
                /\ UNCHANGED pcKeyShiftOffset
           ELSE UNCHANGED <<activeOscillators, orphans, pressedKeys,
                            activePcKeyLinearIndices, pcKeyShiftOffset>>
        /\ UNCHANGED <<currentlyPlayingCell, isMouseDown>>
        /\ EnvUnchanged

\* The frequency the keyup handler releases, with the key's mapping at shift
\* offset 0 in place of the current one.
keyupFrequencyUnshifted(key) ==
    KeyFrequencyOf[key][0]

\* The frequency the keyup handler releases: baseFrequency times the
\* harmonic of getHarmonicInfoForPcKey(key, pcKeyShiftOffset).
keyupFrequency(key) ==
    KeyFrequencyOf[key][pcKeyShiftOffset]

\* On the piano path the handler calls Piano.stop(frequency) itself, which
\* throws when Piano is unbound or has no stop function; the registry is
\* not touched on that path.
KeyUp(eventKey) ==
    LET key == toLowerCase(eventKey)
        keyHarmonicInfo == KeyInfoOf[key][pcKeyShiftOffset]
        frequency == keyupFrequency(key)
        threw == soundSource = "piano" /\ pianoEnv # "ready"
        A == IF soundSource = "piano"
             THEN IF pianoEnv = "ready"
                  THEN PianoStop(Audio, frequency)
                  ELSE Audio
             ELSE IF soundSource = "sine"
             THEN stopTone(Audio, frequency, "sine")
             ELSE Audio
    IN  /\ UNCHANGED <<pcKeyShiftOffset, currentlyPlayingCell, isMouseDown>>
        /\ EnvUnchanged
        /\ IF InitialCellIndexOf[key] # Undefined
           THEN /\ pressedKeys' = IF threw THEN pressedKeys ELSE pressedKeys \ {key}
                /\ activePcKeyLinearIndices' =
                      activePcKeyLinearIndices \ {keyHarmonicInfo.cellIndex}
                /\ activeOscillators' = A.act
                /\ orphans' = A.orph
           ELSE UNCHANGED <<activeOscillators, orphans, pressedKeys,
                            activePcKeyLinearIndices>>

\* The backend reports that a sine oscillator whose onended handler is
\* still attached has ended: the oscillator of a sine entry, or a sine
\* oscillator that lost its entry without stopTone's sine branch detaching
\* the handler.  An ended orphan no longer sounds.
OscillatorEnded(frequency, voice) ==
    LET sineOrphan == [frequency |-> frequency, type |-> "sine"]
        A0 == IF voice = "orphan"
              THEN [Audio EXCEPT !.orph = orphans (-) SetToBag({sineOrphan})]
              ELSE Audio
        A == onended(A0, frequency, voice)
    IN  /\ IF voice = "registered"
           THEN /\ frequency \in DOMAIN activeOscillators
                /\ activeOscillators[frequency].type = "sine"
           ELSE BagIn(sineOrphan, orphans)
        /\ activeOscillators' = A.act
        /\ orphans' = A.orph
        /\ UNCHANGED <<currentlyPlayingCell, isMouseDown>>
        /\ KeyboardUnchanged
        /\ EnvUnchanged

\* The user picks another entry of the sound-source selector.
SourceChange(kind) ==
    /\ soundSource' = kind
    /\ UNCHANGED <<sampleRate, pianoEnv, probe, activeOscillators, orphans,
                   currentlyPlayingCell, isMouseDown, pcKeyShiftOffset,
                   pressedKeys, activePcKeyLinearIndices>>

KeyDownEvent ==
    \E eventKey \in EventKeys, playOk \in BOOLEAN : KeyDown(eventKey, playOk)

KeyUpEvent ==
    \E eventKey \in EventKeys : KeyUp(eventKey)

NoteKeyDown ==
    \E eventKey \in NoteKeys, playOk \in BOOLEAN : KeyDown(eventKey, playOk)

NoteKeyUp ==
    \E eventKey \in NoteKeys : KeyUp(eventKey)

\* The frequencies of the voices that exist.
VoiceFrequencies ==
    DOMAIN activeOscillators \cup {v.frequency : v \in DOMAIN orphans}

OscillatorEndedEvent ==
    \E frequency \in VoiceFrequencies, voice \in {"registered", "orphan"} :
        OscillatorEnded(frequency, voice)

SourceChangeEvent ==
    \E kind \in SourceKinds : SourceChange(kind)

(***************************************************************************)
(* Specifications of the running page.  Spec drives the page with pointer, *)
(* touch, note-key and selector events at shift offset 0; SpecKeyboard     *)
(* drives it with all keyboard events, the shift-control keys included;    *)
(* SpecPointer with pointer and touch events alone.                        *)
(***************************************************************************)
NoProbe == [op |-> "none"]

Init ==
    /\ sampleRate \in SampleRates
    /\ pianoEnv \in PianoEnvs
    /\ soundSource \in SourceKinds
    /\ activeOscillators = EmptyRegistry
    /\ orphans = EmptyBag
    /\ currentlyPlayingCell = NoPlayingCell
    /\ isMouseDown = FALSE
    /\ pcKeyShiftOffset = 0
    /\ pressedKeys = {}
    /\ activePcKeyLinearIndices = {}
    /\ probe = NoProbe

Next ==
    \/ MouseDown
    \/ MouseMove
    \/ MouseUp
    \/ MouseLeave
    \/ TouchStart
    \/ TouchMove
    \/ TouchEnd
    \/ NoteKeyDown
    \/ NoteKeyUp
    \/ SourceChangeEvent

Spec == Init /\ [][Next]_vars

\* Spec with the natural-end notifications of the sine voices.
NextEnded ==
    \/ Next
    \/ OscillatorEndedEvent

SpecEnded == Init /\ [][NextEnded]_vars

\* The page driven by pointer and touch events alone.
NextPointer ==
    \/ MouseDown
    \/ MouseMove
    \/ MouseUp
    \/ MouseLeave
    \/ TouchStart
    \/ TouchMove
    \/ TouchEnd

SpecPointer == Init /\ [][NextPointer]_vars

\* The page driven by keyboard events alone.
NextKeyboard ==
    \/ KeyDownEvent
    \/ KeyUpEvent

SpecKeyboard == Init /\ [][NextKeyboard]_vars

\* The shift-control keys pressed while no mapped key is held.
ShiftKeyDownNoKeyHeld ==
    /\ pressedKeys = {}
    /\ \E eventKey \in {"ArrowUp", "ArrowDown"} : KeyDown(eventKey, TRUE)

\* The page driven by pointer, touch and note-key events, the sound source
\* left as selected, and the shift offset moved only while no key is held.
NextHeld ==
    \/ NextPointer
    \/ NoteKeyDown
    \/ NoteKeyUp
    \/ ShiftKeyDownNoKeyHeld

SpecHeld == Init /\ [][NextHeld]_vars

(***************************************************************************)
(* Specification of the pure mappers: each step evaluates the frequency    *)
(* mapper on a cell or the keyboard mapper on a key and a shift offset.    *)
(***************************************************************************)
\* Keys given to the keyboard mapper: the 21 mapped keys and three others.
MapperKeys ==
    {pcKeys[i] : i \in 1..Len(pcKeys)} \cup {"b", "g", "arrowup"}

MachineUnchanged ==
    UNCHANGED <<sampleRate, pianoEnv, soundSource, activeOscillators, orphans,
                currentlyPlayingCell, isMouseDown, pcKeyShiftOffset,
                pressedKeys, activePcKeyLinearIndices>>

ProbeCell(col, row) ==
    /\ probe' = [op             |-> "cell",
                 col            |-> col,
                 row            |-> row,
                 linearIndex    |-> LinearIndex(col, row),
                 harmonic       |-> getHarmonicForCell(LinearIndex(col, row)),
                 drawFrequency  |-> drawGridFrequency(LinearIndex(col, row)),
                 playFrequency  |-> playNoteFrequency(col, row),
                 keyFrequency   |->
                     keyFrequency(getHarmonicForCell(LinearIndex(col, row)))]
    /\ MachineUnchanged

ProbeKey(key, shift) ==
    /\ probe' = [op    |-> "key",
                 key   |-> key,
                 shift |-> shift,
                 info  |-> getHarmonicInfoForPcKey(key, shift)]
    /\ MachineUnchanged

ProbeCellStep ==
    \E col \in 0..(gridSize - 1), row \in 0..(gridSize - 1) : ProbeCell(col, row)

ProbeKeyStep ==
    \E key \in MapperKeys, shift \in (0 - 3)..3 : ProbeKey(key, shift)

NextMap ==
    \/ ProbeCellStep
    \/ ProbeKeyStep

InitMap ==
    /\ Init
    /\ sampleRate = 44100
    /\ pianoEnv = "ready"
    /\ soundSource = "sine"

SpecMap == InitMap /\ [][NextMap]_vars

(***************************************************************************)
(* Properties.                                                             *)
(***************************************************************************)
\* Whether the key is one of the 21 mapped keys.
MappedKeys ==
    {pcKeys[i] : i \in 1..Len(pcKeys)}

IsMappedKey(key) ==
    key \in MappedKeys

\* The backend starts a voice for a trigger with the selected source: the
\* sine source always does, the piano source when Piano.play returns a
\* sound, or by the fallback to sine when Piano has no play function.
Delivered(playOk) ==
    \/ soundSource = "sine"
    \/ pianoEnv = "empty"
    \/ pianoEnv = "ready" /\ playOk

\* The backend of the selected source can be told to stop a voice.
StopAvailable ==
    soundSource = "sine" \/ pianoEnv = "ready"

\* The number of voices left sounding at frequency outside the registry.
OrphansAt(orph, frequency) ==
    CopiesIn([frequency |-> frequency, type |-> "sine"], orph)
        + CopiesIn([frequency |-> frequency, type |-> "piano"], orph)

\* The step is a key-down that calls playTone(frequency, ...).
KeyTrigger(frequency, playOk) ==
    \E eventKey \in NoteKeys :
        /\ IsMappedKey(toLowerCase(eventKey))
        /\ toLowerCase(eventKey) \notin pressedKeys
        /\ KeyFrequencyOf[toLowerCase(eventKey)][pcKeyShiftOffset] = frequency
        /\ FLess(frequency, Nyquist)
        /\ KeyDown(eventKey, playOk)

\* The step is a pointer or touch event whose playNoteForCell call reaches
\* playTone(frequency, ...).
PointerTrigger(frequency, playOk) ==
    \E cell \in PointerCells :
        /\ CellFrequencyOf[cell] = frequency
        /\ ~(cell[1] = currentlyPlayingCell.x /\ cell[2] = currentlyPlayingCell.y)
        /\ ~FLess(Nyquist, frequency)
        /\ ~stopPlayingCell.A.threw
        /\ PointerDown(cell, playOk) \/ (isMouseDown /\ PointerMove(cell, playOk))

\* C1: the registry holds at most one voice per frequency (it is keyed by
\* the frequency), and a trigger of a frequency that already has a
\* registered voice stops that voice before it registers the new one: the
\* first voice is not left sounding outside the registry, and when the
\* backend starts the new voice exactly one voice, a sounding one, is
\* registered at the frequency afterwards.
C1_Retrigger ==
    [][\A frequency \in DOMAIN activeOscillators, playOk \in BOOLEAN :
          (KeyTrigger(frequency, playOk) \/ PointerTrigger(frequency, playOk)) =>
              /\ OrphansAt(orphans', frequency) <= OrphansAt(orphans, frequency)
              /\ frequency \in DOMAIN activeOscillators' =>
                     activeOscillators'[frequency].sounding
              /\ Delivered(playOk) =>
                     /\ frequency \in DOMAIN activeOscillators'
                     /\ activeOscillators'[frequency].sounding
                     /\ activeOscillators'[frequency].type \in SourceKinds]_vars

\* 440 Hz was triggered by the key "a" and by the pointer on cell 21 while
\* the other was held: one sounding voice is registered at 440.
C1_Witness ==
    /\ "a" \in pressedKeys
    /\ pcKeyShiftOffset = 0
    /\ currentlyPlayingCell = [x |-> 0, y |-> 3, frequency |-> FromInt(440)]
    /\ FromInt(440) \in DOMAIN activeOscillators
    /\ activeOscillators[FromInt(440)].sounding
    /\ OrphansAt(orphans, FromInt(440)) = 0

\* C2: under pointer and touch events alone two voices are never registered
\* at the same time; a registered voice is the voice of the cell recorded
\* as playing, no voice is left sounding outside the registry when the
\* selected backend can be told to stop, and after a drag-move into a cell
\* the only registered voice is at that cell's frequency.
C2_PointerMonophonic ==
    /\ [](/\ Cardinality(DOMAIN activeOscillators) <= 1
          /\ currentlyPlayingCell.frequency = NullNumber =>
                 activeOscillators = EmptyRegistry
          /\ currentlyPlayingCell.frequency # NullNumber =>
                 DOMAIN activeOscillators \subseteq {currentlyPlayingCell.frequency}
          /\ (StopAvailable \/ pianoEnv = "undeclared") => orphans = EmptyBag)
    /\ [][\A cell \in PointerCells, playOk \in BOOLEAN :
              (isMouseDown /\ PointerMove(cell, playOk)) =>
                  DOMAIN activeOscillators' \subseteq {CellFrequencyOf[cell]}]_vars

\* A drag is in progress on cell (0, 1) and its voice is the registered one.
C2_Witness ==
    /\ isMouseDown
    /\ currentlyPlayingCell.x = 0 /\ currentlyPlayingCell.y = 1
    /\ DOMAIN activeOscillators = {CellFrequencyOf[<<0, 1>>]}
    /\ activeOscillators[CellFrequencyOf[<<0, 1>>]].sounding
    /\ orphans = EmptyBag

\* C3: with shift offset 0, a key-down of "z" while "a" is held with its
\* voice registered (or of "a" while "z" is held), the backend starting the
\* voice, leaves two distinct voices registered, at 440 Hz and at 55 Hz,
\* and both keys in the pressed-key set.
C3_KeyboardPolyphony ==
    [][\A playOk \in BOOLEAN, pair \in {<<"a", "z">>, <<"z", "a">>} :
          (/\ pcKeyShiftOffset = 0
           /\ pair[1] \in pressedKeys
           /\ pair[2] \notin pressedKeys
           /\ KeyFrequencyOf[pair[1]][0] \in DOMAIN activeOscillators
           /\ activeOscillators[KeyFrequencyOf[pair[1]][0]].sounding
           /\ Delivered(playOk)
           /\ KeyDown(pair[2], playOk)) =>
              /\ {"a", "z"} \subseteq pressedKeys'
              /\ FromInt(440) # FromInt(55)
              /\ {FromInt(440), FromInt(55)} \subseteq DOMAIN activeOscillators'
              /\ activeOscillators'[FromInt(440)].sounding
              /\ activeOscillators'[FromInt(55)].sounding]_vars

\* "a" and "z" are held at shift 0 and their two voices are registered.
C3_Witness ==
    /\ pcKeyShiftOffset = 0
    /\ pressedKeys = {"a", "z"}
    /\ DOMAIN activeOscillators = {FromInt(440), FromInt(55)}
    /\ activeOscillators[FromInt(440)].sounding
    /\ activeOscillators[FromInt(55)].sounding

\* C4: a key-up of a mapped key acts on the registry only at the frequency
\* the key maps to under the shift offset current at key-up: the voice
\* there is released when the backend can be told to stop, and the entry
\* at every other frequency, the key's key-down frequency included, stays
\* as it was, so the key can leave the pressed-key set while its voice is
\* still registered.
C4_KeyUpCurrentShift ==
    [][\A eventKey \in NoteKeys :
          (IsMappedKey(toLowerCase(eventKey)) /\ KeyUp(eventKey)) =>
              LET key == toLowerCase(eventKey)
                  frequency == KeyFrequencyOf[key][pcKeyShiftOffset]
              IN  /\ \A g \in (DOMAIN activeOscillators
                                  \cup DOMAIN activeOscillators') \ {frequency} :
                         /\ g \in DOMAIN activeOscillators
                         /\ g \in DOMAIN activeOscillators'
                         /\ activeOscillators'[g] = activeOscillators[g]
                  /\ StopAvailable =>
                         /\ key \notin pressedKeys'
                         /\ frequency \in DOMAIN activeOscillators' =>
                                ~activeOscillators'[frequency].sounding
                  /\ soundSource = "sine" =>
                         frequency \notin DOMAIN activeOscillators']_vars

\* The stuck voice: no key is held, the shift offset is +1, and the sine
\* voice a key-down of "a" started at shift 0 is still registered, sounding.
C4_Witness ==
    /\ pressedKeys = {}
    /\ pcKeyShiftOffset = 1
    /\ soundSource = "sine"
    /\ KeyFrequencyOf["a"][0] \in DOMAIN activeOscillators
    /\ KeyFrequencyOf["z"][0] \notin DOMAIN activeOscillators
    /\ activeOscillators[KeyFrequencyOf["a"][0]].sounding

\* C5 as claimed: on every release path and for both source kinds a release
\* removes the registry entry, so after a key-up of a held key with
\* unchanged shift no registry entry remains at that key's frequency.
C5_AsClaimed ==
    [][\A eventKey \in NoteKeys :
          (/\ IsMappedKey(toLowerCase(eventKey))
           /\ toLowerCase(eventKey) \in pressedKeys
           /\ KeyUp(eventKey)) =>
              KeyFrequencyOf[toLowerCase(eventKey)][pcKeyShiftOffset]
                  \notin DOMAIN activeOscillators']_vars

\* C6: the shift offset starts at 0 and lies in -3..3 in every reachable
\* state; an ArrowUp key-down leaves it at +3 when it is +3 and otherwise
\* adds 1, an ArrowDown key-down leaves it at -3 when it is -3 and otherwise
\* subtracts 1.
C6_ShiftClamp ==
    /\ pcKeyShiftOffset = 0
    /\ [](pcKeyShiftOffset \in (0 - 3)..3)
    /\ [][\A playOk \in BOOLEAN :
              /\ KeyDown("ArrowUp", playOk) =>
                     pcKeyShiftOffset' =
                         IF pcKeyShiftOffset = 3 THEN 3 ELSE pcKeyShiftOffset + 1
              /\ KeyDown("ArrowDown", playOk) =>
                     pcKeyShiftOffset' =
                         IF pcKeyShiftOffset = 0 - 3 THEN 0 - 3
                         ELSE pcKeyShiftOffset - 1]_vars

\* The shift offset reached its upper end.
C6_Witness ==
    pcKeyShiftOffset = 3

\* x is a double nearest to n / d: |x - n/d| is at most half a unit in the
\* last place of x, decided by exact integer arithmetic on the limbs of
\* 2 * d * significand(x) against n * 2^(53 - exp).
IsNearestDouble(x, n, d) ==
    LET m   == IF x.exp > 0 THEN 2 * d * 2^(x.exp) ELSE 2 * d
        t   == IF x.exp > 0 THEN 2 * n ELSE n * 2^(1 - x.exp)
        tol == IF x.exp > 0 THEN d * 2^(x.exp) ELSE d
        p4  == m * x.man[4]
        p3  == m * x.man[3] + (p4 \div Radix)
        p2  == m * x.man[2] + (p3 \div Radix)
        p1  == m * x.man[1] + (p2 \div Radix)
        head == m + (p1 \div Radix)
        D1  == p1 % Radix
        D2  == p2 % Radix
        D3  == p3 % Radix
        D4  == p4 % Radix
    IN  /\ Len(x.man) = 4
        /\ \/ /\ head = t
              /\ D1 = 0 /\ D2 = 0
              /\ D3 * Radix + D4 <= tol
           \/ /\ head = t - 1
              /\ D1 = Radix - 1 /\ D2 = Radix - 1
              /\ (Radix - 1 - D3) * Radix + (Radix - D4) <= tol

KeyPosition(key) ==
    (CHOOSE i \in 1..Len(pcKeys) : pcKeys[i] = key) - 1

C10_AsClaimed ==
    [][\A playOk \in BOOLEAN :
          (/\ isMouseDown
           /\ currentlyPlayingCell.frequency # NullNumber
           /\ StopAvailable
           /\ PointerMove(NoCell, playOk)) =>
              /\ currentlyPlayingCell.frequency \notin DOMAIN activeOscillators'
              /\ currentlyPlayingCell' = NoPlayingCell
              /\ ~isMouseDown']_vars

\* C11: under pointer and touch events, a pointer-up, a pointer-leave with
\* the button down, or a touch-end while a cell is playing removes that
\* cell's voice from the registry (stopped, when the selected backend can be
\* told to stop), records no playing cell and clears the button flag; while
\* the flag is clear no cell is playing, no voice is registered, and a
\* pointer or touch move changes nothing.
C11_PointerUpIdle ==
    /\ [](~isMouseDown =>
              /\ currentlyPlayingCell = NoPlayingCell
              /\ activeOscillators = EmptyRegistry)
    /\ [][(currentlyPlayingCell.frequency # NullNumber
              /\ (PointerUp \/ MouseLeave)) =>
              /\ isMouseDown
              /\ ~isMouseDown'
              /\ currentlyPlayingCell' = NoPlayingCell
              /\ currentlyPlayingCell.frequency \notin DOMAIN activeOscillators'
              /\ StopAvailable => orphans' = orphans]_vars
    /\ [][\A cell \in PointerCells \cup {NoCell}, playOk \in BOOLEAN :
              (~isMouseDown /\ PointerMove(cell, playOk)) =>
                  UNCHANGED <<activeOscillators, orphans,
                              currentlyPlayingCell, isMouseDown>>]_vars

\* The state a pointer-up acts on: the button is down and the voice of the
\* playing cell (0, 3) is registered and sounding.
C11_Witness ==
    /\ isMouseDown
    /\ currentlyPlayingCell = [x |-> 0, y |-> 3, frequency |-> FromInt(440)]
    /\ DOMAIN activeOscillators = {FromInt(440)}
    /\ activeOscillators[FromInt(440)].sounding
    /\ soundSource = "sine"

C13_AsClaimed ==
    \A frequency \in DOMAIN activeOscillators : FLess(frequency, Nyquist)

\* C14 as claimed: with the piano source selected and the piano backend
\* unavailable (Piano missing, Piano.play missing, or Piano.play returning
\* no voice) a key-down trigger falls back to sine: a sounding sine voice is
\* registered at the key's frequency and the handler runs to its end, the
\* key entering the pressed-key set.
C14_AsClaimed ==
    [][\A eventKey \in NoteKeys, playOk \in BOOLEAN :
          (/\ soundSource = "piano"
           /\ pianoEnv # "ready" \/ ~playOk
           /\ IsMappedKey(toLowerCase(eventKey))
           /\ toLowerCase(eventKey) \notin pressedKeys
           /\ FLess(KeyFrequencyOf[toLowerCase(eventKey)][pcKeyShiftOffset], Nyquist)
           /\ KeyDown(eventKey, playOk)) =>
              LET frequency == KeyFrequencyOf[toLowerCase(eventKey)][pcKeyShiftOffset]
              IN  /\ frequency \in DOMAIN activeOscillators'
                  /\ activeOscillators'[frequency].type = "sine"
                  /\ activeOscillators'[frequency].sounding
                  /\ toLowerCase(eventKey) \in pressedKeys']_vars

\* C15: a key-down for a mapped key that is already in the pressed-key set
\* (auto-repeat) is a no-op: the registry, the released-but-sounding voices,
\* the pressed-key set, the highlight set and the shift offset are unchanged,
\* so no voice is triggered or re-triggered.
C15_RepeatNoOp ==
    [][\A eventKey \in NoteKeys, playOk \in BOOLEAN :
          (/\ toLowerCase(eventKey) \in pressedKeys
           /\ IsMappedKey(toLowerCase(eventKey))
           /\ KeyDown(eventKey, playOk)) =>
              UNCHANGED <<activeOscillators, orphans, pressedKeys,
                          activePcKeyLinearIndices, pcKeyShiftOffset>>]_vars

C15_Witness ==
    /\ pressedKeys = {"a"}
    /\ pcKeyShiftOffset = 1
    /\ activePcKeyLinearIndices = {21}
    /\ DOMAIN activeOscillators = {FromInt(440)}
    /\ activeOscillators[FromInt(440)].sounding

\* C16: a key-down of ArrowUp or ArrowDown changes only the shift offset, by
\* one step: it triggers and releases no voice, and the registry, the
\* released-but-sounding voices, the pressed-key set, the highlight set and
\* the pointer drag state are left unchanged.
C16_ShiftKeyFrame ==
    [][\A eventKey \in {"ArrowUp", "ArrowDown"} :
          KeyDown(eventKey, TRUE) =>
              /\ UNCHANGED <<activeOscillators, orphans, pressedKeys,
                             activePcKeyLinearIndices, currentlyPlayingCell,
                             isMouseDown>>
              /\ pcKeyShiftOffset' = pcKeyShiftOffset +
                                        (IF eventKey = "ArrowUp" THEN 1 ELSE -1)]_vars

C16_Witness ==
    /\ pcKeyShiftOffset = -1
    /\ pressedKeys = {"a", "z"}
    /\ activePcKeyLinearIndices = {21, 14}
    /\ DOMAIN activeOscillators = {FromInt(440), KeyFrequencyOf["z"][0]}

\* C17: a key-down or key-up for a physical key outside the 21-key table
\* that is not a shift-control key leaves the dispatcher state unchanged:
\* voice registry, released-but-sounding voices, pressed-key set, highlight
\* set, shift offset and pointer state.
C17_UnmappedKeyIgnored ==
    [][\A eventKey \in NoteKeys :
          (/\ ~IsMappedKey(toLowerCase(eventKey))
           /\ \/ \E playOk \in BOOLEAN : KeyDown(eventKey, playOk)
              \/ KeyUp(eventKey)) =>
              UNCHANGED <<activeOscillators, orphans, pressedKeys,
                          activePcKeyLinearIndices, pcKeyShiftOffset,
                          currentlyPlayingCell, isMouseDown>>]_vars

C17_Witness ==
    /\ pcKeyShiftOffset = 2
    /\ pressedKeys = {"z"}
    /\ activePcKeyLinearIndices = {28}
    /\ DOMAIN activeOscillators = {KeyFrequencyOf["z"][2]}
    /\ activeOscillators[KeyFrequencyOf["z"][2]].sounding

\* C18: a natural-end notification from a sine voice removes the registry
\* entry at its frequency only when the entry still holds that voice, and
\* then removes that entry alone; a notification from a voice that has lost
\* its entry (released, or replaced by a later trigger at the frequency)
\* leaves the whole registry, the newer voice included, as it is.
C18_EndedIdentity ==
    [][\A frequency \in VoiceFrequencies :
          /\ OscillatorEnded(frequency, "orphan") =>
                activeOscillators' = activeOscillators
          /\ OscillatorEnded(frequency, "registered") =>
                /\ activeOscillators' = Without(activeOscillators, frequency)
                /\ orphans' = orphans]_vars

C18_Witness ==
    /\ BagIn([frequency |-> FromInt(440), type |-> "sine"], orphans)
    /\ FromInt(440) \in DOMAIN activeOscillators
    /\ activeOscillators[FromInt(440)].type = "sine"
    /\ activeOscillators[FromInt(440)].sounding

\* C19: index = (6 - row) * 7 + col is a bijection from the 49 cells
\* (col, row) of 0..6 x 0..6 onto 0..48, with index 0 at the bottom-left
\* cell (col 0, row 6) and 48 at the top-right cell (col 6, row 0): the
\* index of every cell lies in 0..48, (i mod 7, 6 - i div 7) recovers the
\* cell from its index i, and for every i in 0..48 the forward formula
\* applied to the recovered cell yields i.
C19_IndexRoundTrip ==
    /\ \A i \in 0..48 :
          /\ i % 7 \in 0..6
          /\ 6 - (i \div 7) \in 0..6
          /\ LinearIndex(i % 7, 6 - (i \div 7)) = i
    /\ probe.op = "cell" =>
          /\ probe.linearIndex = LinearIndex(probe.col, probe.row)
          /\ probe.linearIndex \in 0..48
          /\ probe.linearIndex % 7 = probe.col
          /\ 6 - (probe.linearIndex \div 7) = probe.row
          /\ (probe.col = 0 /\ probe.row = 6) <=> probe.linearIndex = 0
          /\ (probe.col = 6 /\ probe.row = 0) <=> probe.linearIndex = 48

\* The index formula was applied to a cell off both diagonals.
C19_Witness ==
    /\ probe.op = "cell"
    /\ probe.col = 3 /\ probe.row = 2
    /\ probe.linearIndex = 31

\* C20 as claimed: at every shift offset in -3..3 the 21 mapped keys map to
\* 21 pairwise distinct cells: the cell the mapper gives a mapped key is
\* given to no other mapped key at that shift offset.
C20_AsClaimed ==
    (probe.op = "key" /\ IsMappedKey(probe.key)) =>
        \A other \in MappedKeys \ {probe.key} :
            getHarmonicInfoForPcKey(other, probe.shift).cellIndex
                # probe.info.cellIndex

\* C21: with the sine source throughout and the shift offset never changed
\* while a key is held, in every reachable state where no mapped key is
\* held and the pointer is idle (button up) the voice registry is empty and
\* no voice is left sounding outside it: every voice started by a key-down
\* or pointer-down has been released.  The step that releases the last held
\* key or lifts the pointer leaves nothing registered.
C21_IdleRegistryEmpty ==
    /\ [](soundSource = "sine" /\ pressedKeys = {} /\ ~isMouseDown =>
              /\ activeOscillators = EmptyRegistry
              /\ orphans = EmptyBag
              /\ currentlyPlayingCell = NoPlayingCell)
    /\ [][(/\ soundSource = "sine"
           /\ pressedKeys' = {} /\ ~isMouseDown'
           /\ NoteKeyUp \/ PointerUp \/ MouseLeave) =>
              activeOscillators' = EmptyRegistry]_vars

\* Idle again after the shift offset was moved: nothing is held and the
\* pointer is up, at a sample rate where the top cell is out of range.
C21_Witness ==
    /\ soundSource = "sine"
    /\ sampleRate = 13200
    /\ pcKeyShiftOffset = 0 - 2
    /\ pressedKeys = {} /\ ~isMouseDown
    /\ activeOscillators = EmptyRegistry

\* C22 as claimed: with the piano backend present, a release stops the
\* voice registered at the released frequency whatever kind it was created
\* with, also after the selector changed since the trigger.  A pointer stop
\* (up, leave, move outside) or a cell change while the recorded cell's
\* voice is registered leaves no further voice sounding outside the
\* registry; so does a key-up of a held key whose voice is registered, and
\* after it no sounding voice is registered at the key's frequency.
C22_AsClaimed ==
    [][pianoEnv = "ready" =>
          /\ (/\ currentlyPlayingCell.frequency \in DOMAIN activeOscillators
              /\ currentlyPlayingCell' # currentlyPlayingCell
              /\ \/ PointerUp
                 \/ MouseLeave
                 \/ \E cell \in PointerCells \cup {NoCell}, playOk \in BOOLEAN :
                       PointerMove(cell, playOk)) =>
                 orphans' = orphans
          /\ \A eventKey \in NoteKeys :
                LET frequency == keyupFrequency(toLowerCase(eventKey))
                IN  (/\ toLowerCase(eventKey) \in pressedKeys
                     /\ frequency \in DOMAIN activeOscillators
                     /\ KeyUp(eventKey)) =>
                        /\ orphans' = orphans
                        /\ \/ frequency \notin DOMAIN activeOscillators'
                           \/ ~activeOscillators'[frequency].sounding]_vars

\* C23 as claimed: pointer-driven and keyboard-driven voices are
\* independent, also when a key and a cell map to the same frequency.  With
\* the sine source, a pointer or touch event leaves the voice registered at
\* the frequency of every mapped key that is held, and a key-up leaves the
\* voice registered at the frequency of the cell being dragged.
C23_AsClaimed ==
    [][soundSource = "sine" =>
          /\ \A key \in pressedKeys :
                (/\ keyupFrequency(key) \in DOMAIN activeOscillators
                 /\ key \in pressedKeys'
                 /\ NextPointer) =>
                    keyupFrequency(key) \in DOMAIN activeOscillators'
          /\ (/\ isMouseDown
              /\ currentlyPlayingCell.frequency \in DOMAIN activeOscillators
              /\ \E eventKey \in NoteKeys :
                    /\ toLowerCase(eventKey) \in pressedKeys
                    /\ KeyUp(eventKey)) =>
                 currentlyPlayingCell.frequency \in DOMAIN activeOscillators']_vars

\* C24 as claimed: under pointer and touch events alone, whenever
\* currentlyPlayingCell records a playing cell (its frequency is not null)
\* a voice is registered at exactly that frequency; stated for the sine
\* source, where every trigger that is not skipped starts a voice.
C24_AsClaimed ==
    (soundSource = "sine" /\ currentlyPlayingCell.frequency # NullNumber) =>
        currentlyPlayingCell.frequency \in DOMAIN activeOscillators

\* C25 as claimed: after any sequence of key-down, key-up and shift events,
\* once no mapped key is held the set of keyboard-highlighted cell indices
\* is empty; stated for the sine source, where no handler is cut short.
C25_AsClaimed ==
    (soundSource = "sine" /\ pressedKeys = {}) =>
        activePcKeyLinearIndices = {}

\* C26 as claimed: for every linear index in 0..48 the frequency drawGrid
\* computes for the cell, the frequency playNoteForCell triggers for it and
\* 440 times the ratio getHarmonicForCell returns (the keyboard path) are
\* the same number, so a key and the cell it is labelled on address the
\* same registry entry.
C26_AsClaimed ==
    probe.op = "cell" =>
        /\ probe.drawFrequency = probe.playFrequency
        /\ probe.keyFrequency = probe.playFrequency

=============================================================================
